---------------------------- MODULE Spec2Model ----------------------------
(***************************************************************************)
(* A model of server/server.js: the PDF upload pipeline (multer disk       *)
(* storage + magic-byte check + SQLite insert), the list, download and     *)
(* delete routes, and the error middleware.                                *)
(*                                                                         *)
(* Strings are sequences of characters; a character is a one-element       *)
(* string, or a name for a character that has no printable form ("LF",     *)
(* "NBSP", ...).  A sequence element is one UTF-16 code unit, as in        *)
(* JavaScript's String.length and String.slice.                            *)
(***************************************************************************)
EXTENDS Integers, Sequences, FiniteSets, TLC

VARIABLES
    now,        \* the time last read, in milliseconds since the model's epoch
    hasOrigCol, \* does the documents table have the original_filename column
    rows,       \* the documents table: a set of row records
    lastSeq,    \* sqlite_sequence.seq of the AUTOINCREMENT key
    blobs,      \* the uploads directory: file path -> file
    reqs,       \* the requests in progress: request number -> request
    nreq,       \* number of requests received so far
    resp,       \* the response sent by the step just taken, NoResp if none
    faults,     \* number of store operations made to fail so far
    hist,       \* history of the behaviour, kept to state properties
    fn_pc,      \* sanitizer harness: "in" before the filename callback, "out" after
    fn_file,    \* sanitizer harness: file.originalname handed to the callback
    fn_out      \* sanitizer harness: what the callback produced

vars == <<now, hasOrigCol, rows, lastSeq, blobs, reqs, nreq, resp, faults, hist,
          fn_pc, fn_file, fn_out>>

sysVars == <<now, hasOrigCol, rows, lastSeq, blobs, reqs, nreq, resp, faults, hist>>
fnVars == <<fn_pc, fn_file, fn_out>>

---------------------------------------------------------------------------
(* Bounds of the model.                                                    *)

MaxTokens == 3      \* a client file name is built from at most this many tokens
MaxReq == 2         \* requests received in one behaviour
MaxActive == 2      \* requests in progress at one time
MaxFaults == 2      \* store operations made to fail in one behaviour
MaxClock == 1       \* times the clock is seen to have advanced in one behaviour
MaxId == 2          \* the greatest :id a client asks for

---------------------------------------------------------------------------
(* Characters.                                                             *)

\* representatives of [\x00-\x1F\x7F]: line feed (also white space) and DEL
AsciiControl == {"LF", "DEL"}
\* representative of the C1 controls \x80-\x9f: NEXT LINE, U+0085
C1Control == {"NEL"}
\* JavaScript white space (\s and String.prototype.trim): space, no-break
\* space, line feed
WhiteSpace == {" ", "NBSP", "LF"}
\* sanitize-filename's illegalRe /[\/\?<>\\:\*\|"]/g : representatives
Illegal == {"/", "\\", ":"}
PathSeparators == {"/", "\\"}

\* bytes of one character in UTF-8
Utf8Width(c) == IF c \in {"NBSP", "NEL", "COMB", "E_ACUTE"} THEN 2 ELSE 1

\* String.prototype.toLowerCase on the letters the model uses
Lower(c) == CASE c = "P" -> "p" [] c = "D" -> "d" [] c = "F" -> "f" [] OTHER -> c

Str_file == <<"f", "i", "l", "e">>
Str_pdf == <<".", "p", "d", "f">>
Str_file_pdf == Str_file \o Str_pdf

---------------------------------------------------------------------------
(* String helpers, as the JavaScript built-ins compute them.               *)

\* s.replace(/[S]/g, ''): every character of the class removed
RemoveAll(s, S) == SelectSeq(s, LAMBDA c : c \notin S)

RECURSIVE SkipLeading(_, _, _)
\* index of the first character at or after i that is not in S (Len+1 if none)
SkipLeading(s, i, S) ==
    IF i <= Len(s) /\ s[i] \in S THEN SkipLeading(s, i + 1, S) ELSE i

RECURSIVE SkipTrailing(_, _, _)
\* index of the last character at or before i that is not in S (0 if none)
SkipTrailing(s, i, S) ==
    IF i >= 1 /\ s[i] \in S THEN SkipTrailing(s, i - 1, S) ELSE i

\* s.replace(/^[S]+/, '')
StripLeading(s, S) == SubSeq(s, SkipLeading(s, 1, S), Len(s))

\* s.replace(/[S]+$/, '')
StripTrailing(s, S) == SubSeq(s, 1, SkipTrailing(s, Len(s), S))

\* String.prototype.trim
Trim(s) == StripTrailing(StripLeading(s, WhiteSpace), WhiteSpace)

\* s.replace(/\s+/g, ' '): every run of white space becomes one space
CollapseWhiteSpace(s) ==
    LET marked == [i \in 1..Len(s) |->
                     IF s[i] \in WhiteSpace
                     THEN IF i > 1 /\ s[i - 1] \in WhiteSpace THEN "DROP" ELSE " "
                     ELSE s[i]]
    IN SelectSeq(marked, LAMBDA c : c # "DROP")

\* s.slice(0, n)
Slice(s, n) == SubSeq(s, 1, IF Len(s) < n THEN Len(s) ELSE n)

\* /\.pdf$/i.test(s)
EndsWithPdf(s) ==
    /\ Len(s) >= 4
    /\ [i \in 1..4 |-> Lower(s[Len(s) - 4 + i])] = Str_pdf

\* String.prototype.normalize('NFC') on the model's characters: the pair
\* e + COMBINING ACUTE ACCENT composes to the single character e-acute
NormalizeNFC(s) ==
    LET marked == [i \in 1..Len(s) |->
                     IF s[i] = "e" /\ i < Len(s) /\ s[i + 1] = "COMB" THEN "E_ACUTE"
                     ELSE IF s[i] = "COMB" /\ i > 1 /\ s[i - 1] = "e" THEN "DROP"
                     ELSE s[i]]
    IN SelectSeq(marked, LAMBDA c : c # "DROP")

RECURSIVE DecDigits(_)
\* the decimal digits of a natural number, as `${n}` prints them
DecDigits(n) ==
    LET d == <<"0", "1", "2", "3", "4", "5", "6", "7", "8", "9">>[(n % 10) + 1]
    IN IF n < 10 THEN <<d>> ELSE Append(DecDigits(n \div 10), d)

RECURSIVE HexDigits(_)
\* Number.prototype.toString(16)
HexDigits(n) ==
    LET d == <<"0", "1", "2", "3", "4", "5", "6", "7",
               "8", "9", "a", "b", "c", "d", "e", "f">>[(n % 16) + 1]
    IN IF n < 16 THEN <<d>> ELSE Append(HexDigits(n \div 16), d)

---------------------------------------------------------------------------
(* sanitize-filename, the routine storage.filename delegates to.           *)

SANITIZE_MAX_BYTES == 255

\* sanitize-filename's controlRe /[\x00-\x1f\x80-\x9f]/g
SanitizeControl == (AsciiControl \ {"DEL"}) \cup C1Control

\* reservedRe /^\.+$/
IsReservedDots(s) == Len(s) >= 1 /\ \A i \in 1..Len(s) : s[i] = "."

\* windowsReservedRe /^(con|prn|aux|nul|com[0-9]|lpt[0-9])(\..*)?$/i, for
\* the reserved name the model's characters can spell
IsWindowsReserved(s) ==
    /\ Len(s) >= 3
    /\ SubSeq(s, 1, 3) = <<"c", "o", "n">>
    /\ (Len(s) = 3 \/ s[4] = ".")

\* bytes of s[lo..hi] in UTF-8
Utf8Bytes(s, lo, hi) ==
    (hi - lo + 1) + Len(SelectSeq(SubSeq(s, lo, hi), LAMBDA c : Utf8Width(c) = 2))

RECURSIVE Utf8Fit(_, _, _, _)
\* number of leading characters of s[lo..hi] that fit in n bytes of UTF-8
Utf8Fit(s, lo, hi, n) ==
    IF lo > hi THEN 0
    ELSE IF Utf8Bytes(s, lo, hi) <= n THEN hi - lo + 1
    ELSE IF lo = hi THEN 0
    ELSE LET mid == (lo + hi) \div 2
             left == Utf8Fit(s, lo, mid, n)
         IN IF left < mid - lo + 1
            THEN left
            ELSE left + Utf8Fit(s, mid + 1, hi, n - Utf8Bytes(s, lo, mid))

\* truncate-utf8-bytes(s, n)
TruncateUtf8(s, n) == SubSeq(s, 1, Utf8Fit(s, 1, Len(s), n))

\* sanitize(input) with the default replacement ''
Sanitize(input) ==
    LET s1 == RemoveAll(input, Illegal)
        s2 == RemoveAll(s1, SanitizeControl)
        s3 == IF IsReservedDots(s2) THEN <<>> ELSE s2
        s4 == IF IsWindowsReserved(s3) THEN <<>> ELSE s3
        s5 == StripTrailing(s4, {".", " "})
    IN TruncateUtf8(s5, SANITIZE_MAX_BYTES)

---------------------------------------------------------------------------
(* storage.filename (multer.diskStorage), server.js lines 81-108.          *)

MAX_NAME_LEN == 200

\* line 82: file.originalname || 'file'
OriginalOrDefault(originalname) ==
    IF originalname = <<>> THEN Str_file ELSE originalname

\* lines 85-86: normalize to NFC, remove control characters, trim; this is
\* what the callback leaves in req.savedOriginalFilename (line 105)
SavedOriginalFilename(originalname) ==
    Trim(RemoveAll(NormalizeNFC(OriginalOrDefault(originalname)), AsciiControl))

\* line 89 without the call of sanitize()
SanitizedBase_NoSanitize(original) ==
    Slice(Trim(CollapseWhiteSpace(original)), MAX_NAME_LEN)

\* line 89 without .slice(0, MAX_NAME_LEN)
SanitizedBase_NoSlice(original) ==
    Trim(CollapseWhiteSpace(Sanitize(original)))

\* line 89: sanitize, collapse white space, trim, cut to MAX_NAME_LEN
SanitizedBase(original) ==
    Slice(Trim(CollapseWhiteSpace(Sanitize(original))), MAX_NAME_LEN)

\* line 92: fallback name when sanitize strips everything
WithFallback(s) == IF s = <<>> THEN Str_file_pdf ELSE s

\* line 95: append .pdf unless the name already ends with it
WithPdfExtension(s) == IF EndsWithPdf(s) THEN s ELSE s \o Str_pdf

\* line 98: remove leading dots and white space
WithoutLeadingDots(s) == StripLeading(s, {"."} \cup WhiteSpace)

\* lines 89-98: safeOriginal, from the normalized name of lines 82-86
SafeFrom(original) ==
    WithoutLeadingDots(WithPdfExtension(WithFallback(SanitizedBase(original))))

\* lines 82-98: safeOriginal, the sanitized name
SafeOriginal(originalname) == SafeFrom(SavedOriginalFilename(originalname))

\* line 101 without the random part
UniquePrefix_NoSalt(ts, salt) == DecDigits(ts)

\* line 101: `${Date.now()}-${Math.floor(Math.random() * 1e9).toString(16)}`
UniquePrefix(ts, salt) == DecDigits(ts) \o <<"-">> \o HexDigits(salt)

\* line 102: `${uniquePrefix}-${safeOriginal}`
StoredName(ts, salt, originalname) ==
    UniquePrefix(ts, salt) \o <<"-">> \o SafeOriginal(originalname)

\* line 101: Math.floor(Math.random() * 1e9) is one of this many values
SALT_RANGE == 1000000000

\* values of Math.floor(Math.random() * 1e9) the model draws: the least and
\* the greatest
SaltValues == {0, SALT_RANGE - 1}

---------------------------------------------------------------------------
(* The client file names the sanitizer is run on: concatenations of at     *)
(* most MaxTokens tokens.                                                  *)

\* a run of letters two short of MAX_NAME_LEN, so that names reach the cut
LongRun == [i \in 1..(MAX_NAME_LEN - 2) |-> "a"]

NameTokens ==
    { <<"a">>, <<".">>, <<" ">>, <<"/">>, <<"\\">>, <<"LF">>, <<"NBSP">>, <<"NEL">>,
      <<".", "p", "d", "f">>, <<".", "P", "D", "F">>, <<"c", "o", "n">>,
      <<"e", "COMB">>, LongRun }

RECURSIVE NamesUpTo(_)
NamesUpTo(k) ==
    IF k = 0 THEN {<<>>}
    ELSE LET shorter == NamesUpTo(k - 1)
         IN shorter \cup {n \o t : n \in shorter, t \in NameTokens}

ClientNames == NamesUpTo(MaxTokens)

NoOutput == [savedOriginalFilename |-> <<>>, safeOriginal |-> <<>>, storedName |-> <<>>]

\* what storage.filename hands on: req.savedOriginalFilename (line 105) and
\* the stored name (line 107); safeOriginal is kept to state properties of it
FilenameResult(ts, salt, originalname) ==
    LET original == SavedOriginalFilename(originalname)
        safeOriginal == SafeFrom(original)
    IN [savedOriginalFilename |-> original,
        safeOriginal |-> safeOriginal,
        storedName |-> UniquePrefix(ts, salt) \o <<"-">> \o safeOriginal]

---------------------------------------------------------------------------
(* The stores.                                                             *)

\* SQL NULL, a value no file name equals
NULL == <<"NULL">>

Str_uploads == <<"uploads", "/">>

\* multer's file.path: path.join(uploadsDir, storedName), lines 14 and 78-80
Filepath(storedName) == Str_uploads \o storedName

\* created_at is CURRENT_TIMESTAMP, which SQLite keeps in whole seconds
MS_PER_SECOND == 1000

\* a row inserted without the size multer counted
NewRow_NoSize(id, filename, original_filename, filepath, filesize, ts, by) ==
    [id |-> id, filename |-> filename, original_filename |-> original_filename,
     filepath |-> filepath, filesize |-> 0,
     created_at |-> ts \div MS_PER_SECOND, by |-> by]

\* a row of the documents table, lines 39-46; by is history: the number of
\* the upload request that inserted the row (0: an earlier run of the server)
NewRow(id, filename, original_filename, filepath, filesize, ts, by) ==
    [id |-> id, filename |-> filename, original_filename |-> original_filename,
     filepath |-> filepath, filesize |-> filesize,
     created_at |-> ts \div MS_PER_SECOND, by |-> by]

RowIds == {row.id : row \in rows}
RowOf(id) == CHOOSE row \in rows : row.id = id

\* the uploads directory as line 22 creates it
EmptyDir == [p \in {} |-> NULL]

\* fs.existsSync(path)
ExistsSync(path) == path \in DOMAIN blobs

\* the directory after fs.unlinkSync(path) succeeded
Unlinked(path) == [p \in (DOMAIN blobs) \ {path} |-> blobs[p]]

\* the directory after a file was written at path (created or replaced)
Written(path, file) ==
    [p \in (DOMAIN blobs) \cup {path} |-> IF p = path THEN file ELSE blobs[p]]

\* a file of the uploads directory: its first bytes, its size, and as history
\* the number of the upload request that wrote it last
NewBlob(head, size, writer, complete) ==
    [head |-> head, size |-> size, writer |-> writer, complete |-> complete]

Str_magic == <<"%", "P", "D", "F">>

\* lines 66-69 with the signature compared in lower case
MagicMatches_Lowercase(head) ==
    [i \in 1..4 |-> IF i <= Len(head) THEN head[i] ELSE "NUL"] = <<"%", "p", "d", "f">>

\* lines 66-69: Buffer.alloc(4) is zero-filled, readSync fills what the file
\* has, and the four bytes are compared with '%PDF'
MagicMatches(head) ==
    [i \in 1..4 |-> IF i <= Len(head) THEN head[i] ELSE "NUL"] = Str_magic

\* line 122: limits.fileSize
MAX_FILE_SIZE == 10 * 1024 * 1024

---------------------------------------------------------------------------
(* Requests.                                                               *)

NoFile == [mimetype |-> "", originalname |-> <<>>, head |-> <<>>, size |-> 0, present |-> FALSE]

FilePart(mimetype, originalname, head, size) ==
    [mimetype |-> mimetype, originalname |-> originalname, head |-> head,
     size |-> size, present |-> TRUE]

Name_a_pdf == <<"a", ".", "p", "d", "f">>
\* a name that normalization, the removal of control characters and
\* sanitize() each change
Name_odd == <<"e", "COMB", "DEL", " ", ":", "x">>
\* a name of white space only
Name_blank == <<" ">>
Head_pdf == <<"%", "P", "D", "F", "-">>
Head_short == <<"%", "P", "D">>
Head_html == <<"<", "h", "t", "m", "l">>

\* the multipart bodies a client sends in the model
UploadBodies ==
    { NoFile,
      FilePart("application/pdf", Name_a_pdf, Head_pdf, 5),
      FilePart("application/pdf", Name_odd, Head_pdf, 5),
      FilePart("application/pdf", Name_blank, Head_pdf, 5),
      FilePart("application/pdf", Name_a_pdf, Head_pdf, MAX_FILE_SIZE + 1),
      FilePart("application/pdf", Name_a_pdf, Head_short, 3),
      FilePart("application/pdf", Name_a_pdf, Head_html, 5),
      FilePart("text/plain", Name_a_pdf, Head_html, MAX_FILE_SIZE + 1) }

\* the :id parameters a client sends in the model
IdParams == 1..MaxId

NoRow == [id |-> 0]

\* a request as it arrives: pc is the step that runs next, status the HTTP
\* status sent (0 while no response was sent)
NewRequest(n, kind, pc, file, id) ==
    [n |-> n, kind |-> kind, pc |-> pc, status |-> 0,
     file |-> file,                   \* upload: the part in field 'document'
     id |-> id,                       \* download, delete: req.params.id
     filename |-> <<>>,               \* upload: req.file.filename
     path |-> <<>>,                   \* upload: req.file.path
     size |-> 0,                      \* upload: req.file.size
     savedOriginalFilename |-> <<>>,  \* upload: req.savedOriginalFilename
     hasFile |-> FALSE,               \* upload: req.file is set
     err |-> "",                      \* the error handed to next(err) or to a callback
     lastID |-> 0,                    \* upload: this.lastID of the insert
     row |-> NoRow,                   \* download, delete: the row db.get returned
     result |-> <<>>,                 \* list: the rows db.all returned
     body |-> [id |-> 0],             \* what the response reports
     verified |-> "not run",          \* history: what isRealPDF returned
     read |-> "not run",              \* history: how isRealPDF's read of the file went
     changes |-> 0,                   \* history, delete: rows the DELETE removed
     log |-> {},                      \* the console.error messages of the request
     sent |-> 0,                      \* history: responses sent for the request
     unlinks |-> 0,                   \* history: calls of unlinkSync by the handler
     inserts |-> 0,                   \* history: inserts attempted
     failed |-> FALSE,                \* history: a store operation of the request failed
     firstErr |-> "",                 \* history, upload: the error of the first insert
     unlink |-> "not tried",          \* history, upload: outcome of the clean-up unlinkSync
     seenAcked |-> IF kind = "list" THEN hist.acked ELSE {},
                                      \* history, list: ids a 201 had reported before arrival
     seenDeleted |-> IF kind \in {"delete", "download"} THEN hist.deleteAcked ELSE {}]
                                      \* history, delete and download: ids a delete had
                                      \* answered 200 for before arrival

NoResp == [n |-> 0, kind |-> "none", status |-> 0]

Requests == DOMAIN reqs

Arrive(kind, pc, file, id) ==
    /\ nreq < MaxReq
    /\ Cardinality(Requests) < MaxActive
    /\ nreq' = nreq + 1
    /\ reqs' = [n \in Requests \cup {nreq + 1} |->
                  IF n = nreq + 1 THEN NewRequest(nreq + 1, kind, pc, file, id) ELSE reqs[n]]
    /\ resp' = NoResp

\* request i goes on as r
Continue(i, r) ==
    /\ reqs' = [reqs EXCEPT ![i] = r]
    /\ resp' = NoResp
    /\ UNCHANGED nreq

\* the last callback of request i, being r, returns: the request is over
Finish(i, r) ==
    /\ reqs' = [n \in Requests \ {i} |-> reqs[n]]
    /\ resp' = [r EXCEPT !.pc = "done"]
    /\ UNCHANGED nreq

\* res.status(s).json(...): request i, being r, is answered and is over
Respond(i, s, r) == Finish(i, [r EXCEPT !.status = s, !.sent = @ + 1])

\* a store operation may be made to fail while the budget of failures lasts
MayFail == faults < MaxFaults

---------------------------------------------------------------------------
(* The state after start-up: the database file and the uploads directory   *)
(* outlive the process, so the server may start on an empty store or on    *)
(* one that holds one or two documents of an earlier run; the table may    *)
(* predate the original_filename column (CREATE TABLE IF NOT EXISTS, line  *)
(* 39).                                                                    *)

EarlierName == StoredName(0, 255, Name_a_pdf)

EarlierRow(withOrig) ==
    NewRow(1, EarlierName, IF withOrig THEN Name_a_pdf ELSE NULL,
           Filepath(EarlierName), 5, 0, 0)

EarlierBlob == NewBlob(Head_pdf, 5, 0, TRUE)

\* a second document of the earlier run, inserted in the same second
SecondName == StoredName(1, 4096, Name_a_pdf)

SecondRow == NewRow(2, SecondName, Name_a_pdf, Filepath(SecondName), 5, 1, 0)

\* history: the ids a 201 has reported, the ids whose row a DELETE removed,
\* the ids a delete request has found and begun to remove, the paths handed
\* out by the filename callback, the paths handed out more than once,
\* whether any store operation has failed, the storage keys issued with the
\* clock reading, random number and client name they were made from, and the
\* ids a delete request has answered 200 for; also the rows that DELETE
\* statements removed and the ids that two delete requests in progress at the
\* same time have asked for
NoHistory(paths) ==
    [acked |-> {}, rowDeleted |-> {}, deleteSeen |-> {}, usedPaths |-> paths,
     collided |-> {}, failedOps |-> FALSE, issued |-> {}, deleteAcked |-> {},
     deletedRows |-> {}, concurrentDeletes |-> {}]

FnIdle ==
    /\ fn_pc = "off"
    /\ fn_file = <<>>
    /\ fn_out = NoOutput

Init ==
    /\ now = MS_PER_SECOND
    /\ \/ /\ hasOrigCol = TRUE /\ rows = {} /\ lastSeq = 0 /\ blobs = EmptyDir
          /\ hist = NoHistory({})
       \/ /\ hasOrigCol \in BOOLEAN
          /\ rows = {EarlierRow(hasOrigCol)}
          /\ lastSeq = 1
          /\ blobs = (Filepath(EarlierName) :> EarlierBlob)
          /\ hist = NoHistory({Filepath(EarlierName)})
       \/ /\ hasOrigCol = TRUE
          /\ rows = {EarlierRow(TRUE), SecondRow}
          /\ lastSeq = 2
          /\ blobs = (Filepath(EarlierName) :> EarlierBlob @@ Filepath(SecondName) :> EarlierBlob)
          /\ hist = NoHistory({Filepath(EarlierName), Filepath(SecondName)})
    /\ reqs = [n \in {} |-> NoResp]
    /\ nreq = 0
    /\ resp = NoResp
    /\ faults = 0
    /\ FnIdle

---------------------------------------------------------------------------
(* Time.  The clock is read by Date.now() (line 101) and by SQLite's       *)
(* CURRENT_TIMESTAMP (line 45).  A reading is the time last read, or a     *)
(* second later: two readings are of the same millisecond and second, or   *)
(* differ in both.                                                         *)

ClockAdvances == (now \div MS_PER_SECOND) - 1

ClockReadings ==
    {now} \cup (IF ClockAdvances < MaxClock THEN {now + MS_PER_SECOND} ELSE {})

---------------------------------------------------------------------------
(* POST /api/documents/upload: upload.single('document'), lines 111-124,   *)
(* then the handler, lines 129-196, then the error middleware, 276-287.    *)

Err_Mimetype == "Error: Only PDF files are allowed (mimetype check)"
Err_LimitFileSize == "MulterError: LIMIT_FILE_SIZE"

Msg_NoColumnNamed == "SQLITE_ERROR: table documents has no column named original_filename"
Msg_NoSuchColumn == "SQLITE_ERROR: no such column: original_filename"
Msg_Busy == "SQLITE_BUSY: database is locked"

\* the errors a statement made to fail reports in the model
DbFaultMessages == {Msg_Busy, Msg_NoSuchColumn}

\* lines 113-120: fileFilter accepts the part by its declared type alone
FileFilter(file) == file.mimetype = "application/pdf"

\* line 279: err instanceof multer.MulterError
IsMulterError(err) == err = Err_LimitFileSize

\* lines 279-286: the status the error middleware answers with
ErrorStatus(err) == IF IsMulterError(err) THEN 400 ELSE 500

\* lines 169 and 187: the row was inserted
Status_Created == 201
\* a failed insert answered like a successful one
Status_InsertFailed_AsCreated == Status_Created
\* lines 166 and 184: the insert failed
Status_InsertFailed == 500
\* a missing file answered like a failure of the store
Status_NoFile_AsServerError == Status_InsertFailed
\* line 131: no file in field 'document'
Status_NoFile == 400
\* line 145: the magic-byte check failed
Status_NotPdf == 400

\* line 156: err.message.includes('no such column: original_filename')
IncludesNoSuchColumn(message) == message = Msg_NoSuchColumn

\* the content check left out: every stored file passes
IsRealPDF_Skipped(path, readFails) == TRUE

\* lines 63-74: isRealPDF; a file that cannot be opened or read gives false
IsRealPDF(path, readFails) ==
    IF readFails \/ ~ExistsSync(path) THEN FALSE ELSE MagicMatches(blobs[path].head)

\* the console.error messages of the handlers
Log_MagicCheckFailed == "PDF magic-byte check failed:"
Log_RemoveNonPdfFailed == "Failed to remove non-PDF file:"
Log_DownloadFailed == "Error downloading file:"
Log_DeleteFileFailed == "Error deleting file:"
Log_Stack == "err.stack"

\* lines 70-71: the catch of isRealPDF logs the error
VerifierLog(path, readFails) ==
    IF readFails \/ ~ExistsSync(path) THEN {Log_MagicCheckFailed} ELSE {}

\* lines 142-144: the catch of the removal of a file that is not a PDF
RemoveNonPdfLog(path, unlinkFails) ==
    IF ExistsSync(path) /\ ~unlinkFails THEN {} ELSE {Log_RemoveNonPdfFailed}

\* lines 163-165 and 181-183: catch (e) { /* ignore */ }
CleanupLog(path, unlinkFails) == {}

\* history: how openSync and readSync of lines 65-67 went
ReadOutcome(path, readFails) ==
    IF ~ExistsSync(path) THEN "missing"
    ELSE IF readFails THEN "unreadable" ELSE "read"

\* the clean-up left out: the file stays
TryUnlink_Keep(path, unlinkFails) == blobs

\* try { fs.unlinkSync(path) } catch (e) { ... }: lines 140-144, 163-165, 181-183
TryUnlink(path, unlinkFails) ==
    IF ExistsSync(path) /\ ~unlinkFails THEN Unlinked(path) ELSE blobs

\* history: how the unlinkSync of a clean-up ended
UnlinkOutcome(path, unlinkFails) ==
    IF ExistsSync(path) /\ ~unlinkFails THEN "done" ELSE "failed"

\* line 135 with the stored name in every case
OriginalFilename_StorageKey(r) == r.filename

\* line 135: req.savedOriginalFilename || filename
OriginalFilename(r) ==
    IF r.savedOriginalFilename = <<>> THEN r.filename ELSE r.savedOriginalFilename

\* history after a step in which a store operation failed, or did not
Failing(h, bad) == [h EXCEPT !.failedOps = @ \/ bad]

StartUpload ==
    /\ \E file \in UploadBodies : Arrive("upload", "multer", file, 0)
    /\ UNCHANGED <<now, hasOrigCol, rows, lastSeq, blobs, faults, hist, fnVars>>

\* storage.filename for every clock reading, random number and client name of
\* the server's runs, computed once
FilenameTable ==
    [ts \in {MS_PER_SECOND * k : k \in 1..(MaxClock + 1)}, salt \in SaltValues,
     name \in {file.originalname : file \in UploadBodies \ {NoFile}}
        |-> FilenameResult(ts, salt, name)]

\* multer takes the part of field 'document': the file filter, then the disk
\* storage's filename callback, then the write stream is opened
MulterFile(i) ==
    /\ reqs[i].kind = "upload" /\ reqs[i].pc = "multer"
    /\ LET r == reqs[i] IN
         \/ /\ ~r.file.present
            /\ Continue(i, [r EXCEPT !.pc = "handler"])
            /\ UNCHANGED <<now, blobs, hist>>
         \/ /\ r.file.present /\ ~FileFilter(r.file)
            /\ Continue(i, [r EXCEPT !.pc = "errmw", !.err = Err_Mimetype])
            /\ UNCHANGED <<now, blobs, hist>>
         \/ /\ r.file.present /\ FileFilter(r.file)
            /\ \E t \in ClockReadings, salt \in SaltValues :
                 LET out == FilenameTable[t, salt, r.file.originalname]
                     path == Filepath(out.storedName)
                 IN /\ now' = t
                    /\ blobs' = Written(path, NewBlob(<<>>, 0, i, FALSE))
                    /\ hist' = [hist EXCEPT !.usedPaths = @ \cup {path},
                                            !.collided = @ \cup ({path} \cap hist.usedPaths),
                                            !.issued = @ \cup {[n |-> i, ts |-> t, salt |-> salt,
                                                                originalname |-> r.file.originalname,
                                                                path |-> path]}]
                    /\ Continue(i, [r EXCEPT !.pc = "writing",
                                             !.filename = out.storedName,
                                             !.path = path,
                                             !.savedOriginalFilename = out.savedOriginalFilename])
    /\ UNCHANGED <<hasOrigCol, rows, lastSeq, faults, fnVars>>

\* the part's stream ends: past limits.fileSize multer removes the file and
\* raises LIMIT_FILE_SIZE, otherwise req.file is set and the handler is next
MulterWrite(i) ==
    /\ reqs[i].kind = "upload" /\ reqs[i].pc = "writing"
    /\ LET r == reqs[i] IN
         \/ /\ r.file.size > MAX_FILE_SIZE
            /\ blobs' = TryUnlink(r.path, FALSE)
            /\ Continue(i, [r EXCEPT !.pc = "errmw", !.err = Err_LimitFileSize])
         \/ /\ r.file.size <= MAX_FILE_SIZE
            /\ blobs' = IF ExistsSync(r.path)
                        THEN Written(r.path, NewBlob(r.file.head, r.file.size, i, TRUE))
                        ELSE blobs
            /\ Continue(i, [r EXCEPT !.pc = "handler", !.hasFile = TRUE,
                                     !.size = r.file.size])
    /\ UNCHANGED <<now, hasOrigCol, rows, lastSeq, faults, hist, fnVars>>

\* lines 276-287
ErrorMiddleware(i) ==
    /\ reqs[i].pc = "errmw"
    /\ Respond(i, ErrorStatus(reqs[i].err), [reqs[i] EXCEPT !.log = @ \cup {Log_Stack}])
    /\ UNCHANGED <<now, hasOrigCol, rows, lastSeq, blobs, faults, hist, fnVars>>

\* lines 129-152: the synchronous part of the handler, up to the call of db.run
UploadHandler(i) ==
    /\ reqs[i].kind = "upload" /\ reqs[i].pc = "handler"
    /\ LET r == reqs[i] IN
         \/ /\ ~r.hasFile
            /\ Respond(i, Status_NoFile, r)
            /\ UNCHANGED <<blobs, faults, hist>>
         \/ /\ r.hasFile
            /\ \E readFails \in BOOLEAN, unlinkFails \in BOOLEAN :
                 LET k == (IF readFails THEN 1 ELSE 0) + (IF unlinkFails THEN 1 ELSE 0)
                     real == IsRealPDF(r.path, readFails)
                     bad == readFails \/ unlinkFails \/ ~ExistsSync(r.path)
                 IN /\ faults + k <= MaxFaults
                    /\ readFails => ExistsSync(r.path)
                    /\ unlinkFails => (~real /\ ExistsSync(r.path))
                    /\ faults' = faults + k
                    /\ hist' = Failing(hist, bad)
                    /\ IF real
                       THEN /\ Continue(i, [r EXCEPT !.pc = "insert1",
                                                     !.verified = "true",
                                                     !.read = ReadOutcome(r.path, readFails),
                                                     !.log = @ \cup VerifierLog(r.path, readFails),
                                                     !.inserts = 1])
                            /\ UNCHANGED blobs
                       ELSE /\ blobs' = TryUnlink(r.path, unlinkFails)
                            /\ Respond(i, Status_NotPdf,
                                       [r EXCEPT !.verified = "false", !.failed = bad,
                                                 !.read = ReadOutcome(r.path, readFails),
                                                 !.log = @ \cup VerifierLog(r.path, readFails)
                                                           \cup RemoveNonPdfLog(r.path, unlinkFails),
                                                 !.unlinks = @ + 1,
                                                 !.unlink = UnlinkOutcome(r.path, unlinkFails)])
    /\ UNCHANGED <<now, hasOrigCol, rows, lastSeq, fnVars>>

\* the id of a table declared without AUTOINCREMENT: one more than the
\* largest id in the table
NextId_MaxRowid ==
    IF rows = {} THEN 1 ELSE (CHOOSE m \in RowIds : \A k \in RowIds : k <= m) + 1

\* line 40: id INTEGER PRIMARY KEY AUTOINCREMENT; the id of the next row is
\* one more than the largest id the table has ever held
NextId == lastSeq + 1

\* the database runs the INSERT of lines 150-152
DbInsert1(i) ==
    /\ reqs[i].kind = "upload" /\ reqs[i].pc = "insert1"
    /\ LET r == reqs[i] IN
         \/ /\ MayFail
            /\ \E m \in DbFaultMessages :
                 Continue(i, [r EXCEPT !.pc = "cb1", !.err = m, !.firstErr = m,
                                       !.failed = TRUE])
            /\ faults' = faults + 1
            /\ hist' = Failing(hist, TRUE)
            /\ UNCHANGED <<now, rows, lastSeq>>
         \/ /\ ~hasOrigCol
            /\ Continue(i, [r EXCEPT !.pc = "cb1", !.err = Msg_NoColumnNamed,
                                     !.firstErr = Msg_NoColumnNamed, !.failed = TRUE])
            /\ hist' = Failing(hist, TRUE)
            /\ UNCHANGED <<now, rows, lastSeq, faults>>
         \/ /\ hasOrigCol
            /\ \E t \in ClockReadings :
                 /\ now' = t
                 /\ rows' = rows \cup {NewRow(NextId, r.filename, OriginalFilename(r),
                                              r.path, r.size, t, i)}
            /\ lastSeq' = NextId
            /\ Continue(i, [r EXCEPT !.pc = "cb1", !.lastID = NextId])
            /\ UNCHANGED <<faults, hist>>
    /\ UNCHANGED <<hasOrigCol, blobs, fnVars>>

\* lines 153-194: the callback of the first insert
Insert1Callback(i) ==
    /\ reqs[i].kind = "upload" /\ reqs[i].pc = "cb1"
    /\ LET r == reqs[i] IN
         \/ /\ r.err = ""
            /\ Respond(i, Status_Created,
                       [r EXCEPT !.body = [id |-> r.lastID, filename |-> r.filename,
                                           original_filename |-> OriginalFilename(r)]])
            /\ hist' = [hist EXCEPT !.acked = @ \cup {r.lastID}]
            /\ UNCHANGED <<blobs, faults>>
         \/ /\ r.err # "" /\ IncludesNoSuchColumn(r.err)
            /\ Continue(i, [r EXCEPT !.pc = "insert2", !.err = "", !.inserts = 2])
            /\ UNCHANGED <<blobs, faults, hist>>
         \/ /\ r.err # "" /\ ~IncludesNoSuchColumn(r.err)
            /\ \E unlinkFails \in BOOLEAN :
                 /\ unlinkFails => (MayFail /\ ExistsSync(r.path))
                 /\ blobs' = TryUnlink(r.path, unlinkFails)
                 /\ faults' = faults + (IF unlinkFails THEN 1 ELSE 0)
                 /\ hist' = Failing(hist, unlinkFails)
                 /\ Respond(i, Status_InsertFailed,
                            [r EXCEPT !.unlink = UnlinkOutcome(r.path, unlinkFails),
                                      !.log = @ \cup CleanupLog(r.path, unlinkFails),
                                      !.unlinks = @ + 1])
    /\ UNCHANGED <<now, hasOrigCol, rows, lastSeq, fnVars>>

\* the database runs the fallback INSERT of lines 157-159
DbInsert2(i) ==
    /\ reqs[i].kind = "upload" /\ reqs[i].pc = "insert2"
    /\ LET r == reqs[i] IN
         \/ /\ MayFail
            /\ Continue(i, [r EXCEPT !.pc = "cb2", !.err = Msg_Busy, !.failed = TRUE])
            /\ faults' = faults + 1
            /\ hist' = Failing(hist, TRUE)
            /\ UNCHANGED <<now, rows, lastSeq>>
         \/ /\ \E t \in ClockReadings :
                 /\ now' = t
                 /\ rows' = rows \cup {NewRow(NextId, r.filename, NULL, r.path,
                                              r.size, t, i)}
            /\ lastSeq' = NextId
            /\ Continue(i, [r EXCEPT !.pc = "cb2", !.lastID = NextId])
            /\ UNCHANGED <<faults, hist>>
    /\ UNCHANGED <<hasOrigCol, blobs, fnVars>>

\* lines 160-175: the callback of the fallback insert
Insert2Callback(i) ==
    /\ reqs[i].kind = "upload" /\ reqs[i].pc = "cb2"
    /\ LET r == reqs[i] IN
         \/ /\ r.err = ""
            /\ Respond(i, Status_Created,
                       [r EXCEPT !.body = [id |-> r.lastID, filename |-> r.filename]])
            /\ hist' = [hist EXCEPT !.acked = @ \cup {r.lastID}]
            /\ UNCHANGED <<blobs, faults>>
         \/ /\ r.err # ""
            /\ \E unlinkFails \in BOOLEAN :
                 /\ unlinkFails => (MayFail /\ ExistsSync(r.path))
                 /\ blobs' = TryUnlink(r.path, unlinkFails)
                 /\ faults' = faults + (IF unlinkFails THEN 1 ELSE 0)
                 /\ hist' = Failing(hist, unlinkFails)
                 /\ Respond(i, Status_InsertFailed,
                            [r EXCEPT !.unlink = UnlinkOutcome(r.path, unlinkFails),
                                      !.log = @ \cup CleanupLog(r.path, unlinkFails),
                                      !.unlinks = @ + 1])
    /\ UNCHANGED <<now, hasOrigCol, rows, lastSeq, fnVars>>

---------------------------------------------------------------------------
(* GET /api/documents, lines 199-206.                                      *)

RECURSIVE Ordered(_)
\* ORDER BY created_at DESC over a scan in rowid order: rows of one second
\* come out in ascending id order
Ordered(rs) ==
    IF rs = {} THEN <<>>
    ELSE LET first == CHOOSE row \in rs : \A other \in rs :
                         \/ row.created_at > other.created_at
                         \/ row.created_at = other.created_at /\ row.id <= other.id
         IN <<first>> \o Ordered(rs \ {first})

StartList ==
    /\ Arrive("list", "all", NoFile, 0)
    /\ UNCHANGED <<now, hasOrigCol, rows, lastSeq, blobs, faults, hist, fnVars>>

\* the database runs the SELECT of line 200
DbAll(i) ==
    /\ reqs[i].kind = "list" /\ reqs[i].pc = "all"
    /\ \/ /\ MayFail
          /\ Continue(i, [reqs[i] EXCEPT !.pc = "cb", !.err = Msg_Busy, !.failed = TRUE])
          /\ faults' = faults + 1
          /\ hist' = Failing(hist, TRUE)
       \/ /\ Continue(i, [reqs[i] EXCEPT !.pc = "cb", !.result = Ordered(rows)])
          /\ UNCHANGED <<faults, hist>>
    /\ UNCHANGED <<now, hasOrigCol, rows, lastSeq, blobs, fnVars>>

\* lines 200-205
ListCallback(i) ==
    /\ reqs[i].kind = "list" /\ reqs[i].pc = "cb"
    /\ Respond(i, IF reqs[i].err # "" THEN 500 ELSE 200, reqs[i])
    /\ UNCHANGED <<now, hasOrigCol, rows, lastSeq, blobs, faults, hist, fnVars>>

---------------------------------------------------------------------------
(* GET /api/documents/:id, lines 209-239.                                  *)

\* SELECT * FROM documents WHERE id = ?
SelectById(id) == IF id \in RowIds THEN RowOf(id) ELSE NoRow

StartDownload ==
    /\ \E id \in IdParams : Arrive("download", "get", NoFile, id)
    /\ UNCHANGED <<now, hasOrigCol, rows, lastSeq, blobs, faults, hist, fnVars>>

\* the database runs the SELECT of line 212 or of line 245
DbGet(i) ==
    /\ reqs[i].kind \in {"download", "delete"} /\ reqs[i].pc = "get"
    /\ \/ /\ MayFail
          /\ Continue(i, [reqs[i] EXCEPT !.pc = "cb", !.err = Msg_Busy, !.failed = TRUE])
          /\ faults' = faults + 1
          /\ hist' = Failing(hist, TRUE)
       \/ /\ Continue(i, [reqs[i] EXCEPT !.pc = "cb", !.row = SelectById(reqs[i].id)])
          /\ UNCHANGED <<faults, hist>>
    /\ UNCHANGED <<now, hasOrigCol, rows, lastSeq, blobs, fnVars>>

\* line 228 with the storage key in every case
DownloadName_StorageKey(row) == row.filename

\* line 228: row.original_filename || row.filename
DownloadName(row) ==
    IF row.original_filename \in {NULL, <<>>} THEN row.filename ELSE row.original_filename

\* the callback of db.get removing the row whose file it finds missing
DownloadCallback_Repairing(i) ==
    /\ reqs[i].kind = "download" /\ reqs[i].pc = "cb"
    /\ LET r == reqs[i] IN
         \/ /\ r.err # ""
            /\ Respond(i, 500, r)
            /\ UNCHANGED rows
         \/ /\ r.err = "" /\ r.row = NoRow
            /\ Respond(i, 404, r)
            /\ UNCHANGED rows
         \/ /\ r.err = "" /\ r.row # NoRow /\ ~ExistsSync(r.row.filepath)
            /\ Respond(i, 404, r)
            /\ rows' = {row \in rows : row.id # r.row.id}
         \/ /\ r.err = "" /\ r.row # NoRow /\ ExistsSync(r.row.filepath)
            /\ Continue(i, [r EXCEPT !.pc = "sending",
                                     !.body = [id |-> r.row.id, name |-> DownloadName(r.row)]])
            /\ UNCHANGED rows
    /\ UNCHANGED <<now, hasOrigCol, lastSeq, blobs, faults, hist, fnVars>>

\* lines 212-237, up to the call of res.download
DownloadCallback(i) ==
    /\ reqs[i].kind = "download" /\ reqs[i].pc = "cb"
    /\ LET r == reqs[i] IN
         \/ /\ r.err # ""
            /\ Respond(i, 500, r)
         \/ /\ r.err = "" /\ r.row = NoRow
            /\ Respond(i, 404, r)
         \/ /\ r.err = "" /\ r.row # NoRow /\ ~ExistsSync(r.row.filepath)
            /\ Respond(i, 404, r)
         \/ /\ r.err = "" /\ r.row # NoRow /\ ExistsSync(r.row.filepath)
            /\ Continue(i, [r EXCEPT !.pc = "sending",
                                     !.body = [id |-> r.row.id, name |-> DownloadName(r.row)]])
    /\ UNCHANGED <<now, hasOrigCol, rows, lastSeq, blobs, faults, hist, fnVars>>

\* the callback of res.download answering every error
ErrorReplies_Unguarded(headersSent) == 1

\* lines 233-235: the responses the callback of res.download sends on an error
ErrorReplies(headersSent) == IF headersSent THEN 0 ELSE 1

\* lines 230-237: res.download ends; on an error the 500 is sent only while
\* the headers have not been sent
DownloadEnd(i) ==
    /\ reqs[i].kind = "download" /\ reqs[i].pc = "sending"
    /\ \/ /\ Respond(i, 200, reqs[i])
          /\ UNCHANGED <<faults, hist>>
       \/ /\ MayFail
          /\ \E headersSent \in BOOLEAN :
               Finish(i, [reqs[i] EXCEPT !.status = IF headersSent THEN 200 ELSE 500,
                                         !.sent = @ + (IF headersSent THEN 1 ELSE 0)
                                                    + ErrorReplies(headersSent),
                                         !.failed = TRUE, !.err = "Error: download",
                                         !.log = @ \cup {Log_DownloadFailed}])
          /\ faults' = faults + 1
          /\ hist' = Failing(hist, TRUE)
    /\ UNCHANGED <<now, hasOrigCol, rows, lastSeq, blobs, fnVars>>

---------------------------------------------------------------------------
(* DELETE /api/documents/:id, lines 242-273.                               *)

\* the delete requests in progress that ask for id
DeletesOf(id) == {n \in Requests : reqs[n].kind = "delete" /\ reqs[n].id = id}

StartDelete ==
    /\ \E id \in IdParams :
         /\ Arrive("delete", "get", NoFile, id)
         /\ hist' = [hist EXCEPT !.concurrentDeletes =
                                     @ \cup (IF DeletesOf(id) # {} THEN {id} ELSE {})]
    /\ UNCHANGED <<now, hasOrigCol, rows, lastSeq, blobs, faults, fnVars>>

\* lines 245-265: the callback of db.get, up to the call of db.run
DeleteCallback(i) ==
    /\ reqs[i].kind = "delete" /\ reqs[i].pc = "cb"
    /\ LET r == reqs[i] IN
         \/ /\ r.err # ""
            /\ Respond(i, 500, r)
            /\ UNCHANGED <<blobs, faults, hist>>
         \/ /\ r.err = "" /\ r.row = NoRow
            /\ Respond(i, 404, r)
            /\ UNCHANGED <<blobs, faults, hist>>
         \/ /\ r.err = "" /\ r.row # NoRow
            /\ \E unlinkFails \in BOOLEAN :
                 /\ unlinkFails => (MayFail /\ ExistsSync(r.row.filepath))
                 /\ blobs' = TryUnlink(r.row.filepath, unlinkFails)
                 /\ faults' = faults + (IF unlinkFails THEN 1 ELSE 0)
                 /\ hist' = [Failing(hist, unlinkFails) EXCEPT !.deleteSeen = @ \cup {r.row.id}]
                 /\ Continue(i, [r EXCEPT !.pc = "run", !.failed = unlinkFails,
                                          !.log = @ \cup (IF unlinkFails
                                                          THEN {Log_DeleteFileFailed} ELSE {}),
                                          !.unlinks = @ + (IF ExistsSync(r.row.filepath)
                                                           THEN 1 ELSE 0)])
    /\ UNCHANGED <<now, hasOrigCol, rows, lastSeq, fnVars>>

\* the DELETE leaves the table as it was
RowsAfterDelete_Kept(id) == rows

\* the DELETE without its WHERE clause
RowsAfterDelete_All(id) == {}

\* DELETE FROM documents WHERE id = ?
RowsAfterDelete(id) == {row \in rows : row.id # id}

\* the database runs the DELETE of line 265
DbDelete(i) ==
    /\ reqs[i].kind = "delete" /\ reqs[i].pc = "run"
    /\ \/ /\ MayFail
          /\ Continue(i, [reqs[i] EXCEPT !.pc = "cb2", !.err = Msg_Busy, !.failed = TRUE])
          /\ faults' = faults + 1
          /\ hist' = Failing(hist, TRUE)
          /\ UNCHANGED rows
       \/ /\ rows' = RowsAfterDelete(reqs[i].id)
          /\ hist' = [hist EXCEPT !.rowDeleted = @ \cup ({reqs[i].id} \cap RowIds),
                                  !.deletedRows = @ \cup (rows \ rows')]
          /\ Continue(i, [reqs[i] EXCEPT !.pc = "cb2",
                                         !.changes = Cardinality(rows \ rows')])
          /\ UNCHANGED faults
    /\ UNCHANGED <<now, hasOrigCol, lastSeq, blobs, fnVars>>

\* the callback of the DELETE without the test of err2
DeleteEnd_ErrorIgnored(i) ==
    /\ reqs[i].kind = "delete" /\ reqs[i].pc = "cb2"
    /\ Respond(i, 200, reqs[i])
    /\ hist' = [hist EXCEPT !.deleteAcked = @ \cup {reqs[i].id}]
    /\ UNCHANGED <<now, hasOrigCol, rows, lastSeq, blobs, faults, fnVars>>

\* lines 265-271: the callback of the DELETE
DeleteEnd(i) ==
    /\ reqs[i].kind = "delete" /\ reqs[i].pc = "cb2"
    /\ Respond(i, IF reqs[i].err # "" THEN 500 ELSE 200, reqs[i])
    /\ hist' = [hist EXCEPT !.deleteAcked =
                                @ \cup (IF reqs[i].err # "" THEN {} ELSE {reqs[i].id})]
    /\ UNCHANGED <<now, hasOrigCol, rows, lastSeq, blobs, faults, fnVars>>

---------------------------------------------------------------------------
(* The server.                                                             *)

Next ==
    \/ StartUpload
    \/ StartList
    \/ StartDownload
    \/ StartDelete
    \/ \E i \in Requests : MulterFile(i)
    \/ \E i \in Requests : MulterWrite(i)
    \/ \E i \in Requests : ErrorMiddleware(i)
    \/ \E i \in Requests : UploadHandler(i)
    \/ \E i \in Requests : DbInsert1(i)
    \/ \E i \in Requests : Insert1Callback(i)
    \/ \E i \in Requests : DbInsert2(i)
    \/ \E i \in Requests : Insert2Callback(i)
    \/ \E i \in Requests : DbAll(i)
    \/ \E i \in Requests : ListCallback(i)
    \/ \E i \in Requests : DbGet(i)
    \/ \E i \in Requests : DownloadCallback(i)
    \/ \E i \in Requests : DownloadEnd(i)
    \/ \E i \in Requests : DeleteCallback(i)
    \/ \E i \in Requests : DbDelete(i)
    \/ \E i \in Requests : DeleteEnd(i)

Spec == Init /\ [][Next]_vars

---------------------------------------------------------------------------
(* The server with one client that sends its next request when the last    *)
(* one is answered: longer runs, without requests in progress together.    *)

MaxSeqReq == 4

\* the multipart bodies that client sends: a PDF, and a file of another type
BodiesInTurn ==
    { FilePart("application/pdf", Name_a_pdf, Head_pdf, 5),
      FilePart("text/plain", Name_a_pdf, Head_html, MAX_FILE_SIZE + 1) }

ArriveInTurn(limit, kind, pc, file, id) ==
    /\ nreq < limit
    /\ Requests = {}
    /\ nreq' = nreq + 1
    /\ reqs' = [n \in {nreq + 1} |-> NewRequest(nreq + 1, kind, pc, file, id)]
    /\ resp' = NoResp

StartInTurn ==
    /\ \/ \E file \in BodiesInTurn : ArriveInTurn(MaxSeqReq, "upload", "multer", file, 0)
       \/ ArriveInTurn(MaxSeqReq, "list", "all", NoFile, 0)
       \/ \E id \in IdParams : ArriveInTurn(MaxSeqReq, "download", "get", NoFile, id)
       \/ \E id \in IdParams : ArriveInTurn(MaxSeqReq, "delete", "get", NoFile, id)
    /\ UNCHANGED <<now, hasOrigCol, rows, lastSeq, blobs, faults, hist, fnVars>>

NextInTurn ==
    \/ StartInTurn
    \/ \E i \in Requests : MulterFile(i)
    \/ \E i \in Requests : MulterWrite(i)
    \/ \E i \in Requests : ErrorMiddleware(i)
    \/ \E i \in Requests : UploadHandler(i)
    \/ \E i \in Requests : DbInsert1(i)
    \/ \E i \in Requests : Insert1Callback(i)
    \/ \E i \in Requests : DbInsert2(i)
    \/ \E i \in Requests : Insert2Callback(i)
    \/ \E i \in Requests : DbAll(i)
    \/ \E i \in Requests : ListCallback(i)
    \/ \E i \in Requests : DbGet(i)
    \/ \E i \in Requests : DownloadCallback(i)
    \/ \E i \in Requests : DownloadEnd(i)
    \/ \E i \in Requests : DeleteCallback(i)
    \/ \E i \in Requests : DbDelete(i)
    \/ \E i \in Requests : DeleteEnd(i)

SpecInTurn == Init /\ [][NextInTurn]_vars

---------------------------------------------------------------------------
(* The server when every callback that is due is called in the end: the    *)
(* event loop runs each pending callback of a request, and the database    *)
(* and the file system complete each operation they were given.  The       *)
(* client sends any body, one request after the other.                     *)

MaxServedReq == 2

StartServed ==
    /\ \/ \E file \in UploadBodies : ArriveInTurn(MaxServedReq, "upload", "multer", file, 0)
       \/ ArriveInTurn(MaxServedReq, "list", "all", NoFile, 0)
       \/ \E id \in IdParams : ArriveInTurn(MaxServedReq, "download", "get", NoFile, id)
       \/ \E id \in IdParams : ArriveInTurn(MaxServedReq, "delete", "get", NoFile, id)
    /\ UNCHANGED <<now, hasOrigCol, rows, lastSeq, blobs, faults, hist, fnVars>>

\* the next callback of request i
StepOf(i) ==
    /\ i \in Requests
    /\ \/ MulterFile(i) \/ MulterWrite(i) \/ ErrorMiddleware(i) \/ UploadHandler(i)
       \/ DbInsert1(i) \/ Insert1Callback(i) \/ DbInsert2(i) \/ Insert2Callback(i)
       \/ DbAll(i) \/ ListCallback(i)
       \/ DbGet(i) \/ DownloadCallback(i) \/ DownloadEnd(i)
       \/ DeleteCallback(i) \/ DbDelete(i) \/ DeleteEnd(i)

NextServed ==
    \/ StartServed
    \/ \E i \in Requests : MulterFile(i)
    \/ \E i \in Requests : MulterWrite(i)
    \/ \E i \in Requests : ErrorMiddleware(i)
    \/ \E i \in Requests : UploadHandler(i)
    \/ \E i \in Requests : DbInsert1(i)
    \/ \E i \in Requests : Insert1Callback(i)
    \/ \E i \in Requests : DbInsert2(i)
    \/ \E i \in Requests : Insert2Callback(i)
    \/ \E i \in Requests : DbAll(i)
    \/ \E i \in Requests : ListCallback(i)
    \/ \E i \in Requests : DbGet(i)
    \/ \E i \in Requests : DownloadCallback(i)
    \/ \E i \in Requests : DownloadEnd(i)
    \/ \E i \in Requests : DeleteCallback(i)
    \/ \E i \in Requests : DbDelete(i)
    \/ \E i \in Requests : DeleteEnd(i)

CallbacksFire == \A i \in 1..MaxServedReq : WF_vars(StepOf(i))

SpecServed == Init /\ [][NextServed]_vars /\ CallbacksFire

---------------------------------------------------------------------------
(* The filename callback on its own, over every client name.               *)

InitFilename ==
    /\ now = MS_PER_SECOND
    /\ hasOrigCol = TRUE
    /\ rows = {} /\ lastSeq = 0 /\ blobs = EmptyDir
    /\ reqs = [n \in {} |-> NoResp]
    /\ nreq = 0
    /\ resp = NoResp
    /\ faults = 0
    /\ hist = NoHistory({})
    /\ fn_pc = "in"
    /\ fn_file \in ClientNames
    /\ fn_out = NoOutput

\* storage.filename, lines 81-108, called with file.originalname = fn_file
FilenameCallback ==
    /\ fn_pc = "in"
    /\ \E salt \in SaltValues : fn_out' = FilenameResult(now, salt, fn_file)
    /\ fn_pc' = "out"
    /\ UNCHANGED <<fn_file, sysVars>>

NextFilename == FilenameCallback

SpecFilename == InitFilename /\ [][NextFilename]_vars

---------------------------------------------------------------------------
(* Properties of the filename callback, checked under SpecFilename.        *)

\* C5: for every client file name, the sanitized name does not begin with
\* '.' or white space and ends with .pdf, compared case-insensitively
C5_SafeNameShape ==
    fn_pc = "out" =>
        LET s == fn_out.safeOriginal
        IN /\ s # <<>>
           /\ s[1] \notin ({"."} \cup WhiteSpace)
           /\ EndsWithPdf(s)

\* a component of a path that steps out of, or stays in, the directory
TraversalNames == {<<".">>, <<".", ".">>}

\* C6: for every client file name, the storage key holds no path separator,
\* is no path-traversal name and holds no ASCII control character, so that
\* the blob's path is the uploads directory followed by one component
C6_StorageKeySafe ==
    fn_pc = "out" =>
        LET key == fn_out.storedName
        IN /\ key # <<>>
           /\ \A i \in 1..Len(key) : key[i] \notin (PathSeparators \cup AsciiControl)
           /\ key \notin TraversalNames
           /\ SubSeq(Filepath(key), Len(Str_uploads) + 1, Len(Filepath(key))) = key

\* C6's case: the client's name holds a path separator, a dot and a control
\* character, and the callback has produced a key
C6_Witness ==
    /\ fn_pc = "out"
    /\ \E i \in 1..Len(fn_file) : fn_file[i] \in PathSeparators
    /\ \E i \in 1..Len(fn_file) : fn_file[i] \in AsciiControl
    /\ \E i \in 1..Len(fn_file) : fn_file[i] = "."
    /\ fn_out.storedName # <<>>

\* C7: for every client file name, the empty one included, the sanitized
\* name has at least 1 and at most MAX_NAME_LEN + 4 characters
C7_SafeNameLength ==
    fn_pc = "out" =>
        /\ Len(fn_out.safeOriginal) >= 1
        /\ Len(fn_out.safeOriginal) <= MAX_NAME_LEN + Len(Str_pdf)

\* C7's case: a name longer than MAX_NAME_LEN was cut and .pdf appended
C7_Witness ==
    /\ fn_pc = "out"
    /\ Len(fn_file) > MAX_NAME_LEN
    /\ Len(fn_out.safeOriginal) = MAX_NAME_LEN + Len(Str_pdf)

---------------------------------------------------------------------------
(* Properties of the server, checked under Spec.  resp is the response of  *)
(* the step just taken, so a predicate on resp speaks of the moment the    *)
(* response is sent.                                                       *)

\* the rows request n inserted and the files it wrote last
RowsOf(n) == {row \in rows : row.by = n}
BlobsOf(n) == {p \in DOMAIN blobs : blobs[p].writer = n}

\* the bytes begin with %PDF
BeginsWithPdfSignature(head) ==
    Len(head) >= 4 /\ SubSeq(head, 1, 4) = <<"%", "P", "D", "F">>

\* an upload has just been answered
UploadAnswered == resp.kind = "upload" /\ resp.status # 0

\* C1: every upload whose bytes do not begin with %PDF, whatever its declared
\* type or name, ends with 400 and leaves no new row and no new blob
C1_NotPdfLeavesNothing ==
    (UploadAnswered /\ resp.file.present /\ ~BeginsWithPdfSignature(resp.file.head)) =>
        /\ resp.status = 400
        /\ RowsOf(resp.n) = {}
        /\ BlobsOf(resp.n) = {}

\* the part is one the pipeline accepts: declared application/pdf, at most
\* 10 MiB, beginning with %PDF
ValidPdf(file) ==
    /\ file.present
    /\ file.mimetype = "application/pdf"
    /\ file.size <= 10 * 1024 * 1024
    /\ BeginsWithPdfSignature(file.head)

\* what a 201 for request r has left: one row, the one of the reported id,
\* and the file of its filepath, written by r, unless a delete request has
\* since found the row
LeavesOneRowOneBlob(r) ==
    /\ r.lastID > 0 /\ r.body.id = r.lastID
    /\ RowsOf(r.n) \subseteq {row \in rows : row.id = r.lastID}
    /\ BlobsOf(r.n) \subseteq {r.path}
    /\ r.lastID \notin hist.deleteSeen =>
           /\ RowsOf(r.n) # {}
           /\ BlobsOf(r.n) # {}
           /\ \A row \in RowsOf(r.n) : row.filepath = r.path

\* every id a 201 had reported when list request r arrived is in r's result,
\* unless its row has been deleted
ListsAcked(r) ==
    \A id \in r.seenAcked \ hist.rowDeleted :
        \E k \in 1..Len(r.result) : r.result[k].id = id

AckedOnlyAfterVerifyAndInsert(r) ==
    /\ r.verified = "true"
    /\ r.err = ""
    /\ r.lastID > 0 /\ r.body.id = r.lastID

\* the row of the reported id exists and its filepath names an existing file
RowAndBlobExist(id) ==
    /\ id \in RowIds
    /\ ExistsSync(RowOf(id).filepath)

\* C3 as stated: a 201 is sent only if the verifier returned true for the
\* request's blob and an insert of the request succeeded, and at the moment
\* of the 201 the row of the returned id exists and its filepath names an
\* existing blob
C3_AckImpliesStored ==
    (UploadAnswered /\ resp.status = 201) =>
        /\ AckedOnlyAfterVerifyAndInsert(resp)
        /\ RowAndBlobExist(resp.body.id)

\* C3, amended: the row and the blob exist at the moment of the 201 unless a
\* delete request has already found the row or another upload was given the
\* same storage key
C3_AckImpliesStored_Amended ==
    (UploadAnswered /\ resp.status = 201) =>
        /\ AckedOnlyAfterVerifyAndInsert(resp)
        /\ (resp.body.id \notin hist.deleteSeen /\ resp.path \notin hist.collided) =>
               RowAndBlobExist(resp.body.id)

\* C3's case: a 201 is sent while another request is in progress
C3_Witness ==
    /\ UploadAnswered /\ resp.status = 201
    /\ Requests # {}
    /\ RowAndBlobExist(resp.body.id)

\* every row's filepath names an existing file, and every file of the
\* directory is the filepath of exactly one row
OneToOne ==
    /\ \A row \in rows : ExistsSync(row.filepath)
    /\ \A p \in DOMAIN blobs : Cardinality({row \in rows : row.filepath = p}) = 1

C8_WrongTypeRejected ==
    (UploadAnswered /\ resp.file.present /\ resp.file.mimetype # "application/pdf") =>
        /\ resp.status = 400
        /\ resp.path = <<>> /\ BlobsOf(resp.n) = {}
        /\ resp.inserts = 0 /\ RowsOf(resp.n) = {}

\* C9: an upload whose stream exceeds 10 MiB is rejected with 400, the
\* verifier never runs for it, no insert is attempted, and no blob of the
\* upload remains
C9_TooLargeRejected ==
    (UploadAnswered /\ resp.file.present /\ resp.file.size > 10 * 1024 * 1024) =>
        /\ resp.status = 400
        /\ resp.verified = "not run"
        /\ resp.inserts = 0
        /\ BlobsOf(resp.n) = {}

\* a step of an upload request that carries no file
NoFileStep(i) ==
    /\ i \in Requests
    /\ reqs[i].kind = "upload" /\ ~reqs[i].file.present
    /\ (i \notin DOMAIN reqs' \/ reqs'[i] # reqs[i])

\* C10: an upload request with no file in field 'document' is answered 400,
\* and no step of it changes the documents table or the uploads directory
C10_NoFileRejected ==
    /\ []((UploadAnswered /\ ~resp.file.present) => resp.status = 400)
    /\ [][\A i \in 1..MaxReq : NoFileStep(i) => (rows' = rows /\ blobs' = blobs)]_vars

\* C10's case: a request without a file is answered while the store holds a
\* document
C10_Witness ==
    /\ UploadAnswered /\ ~resp.file.present
    /\ resp.status = 400
    /\ rows # {} /\ DOMAIN blobs # {}

\* the last insert of the upload just answered has failed
FinalInsertFailed == UploadAnswered /\ resp.inserts >= 1 /\ resp.err # ""

\* C11: when the final insert of an upload fails, the deletion of the blob
\* is attempted before the response, the response is 500, no row of the
\* upload exists, and when the deletion succeeded no blob of it remains
C11_InsertFailureCleansUp ==
    FinalInsertFailed =>
        /\ resp.unlink # "not tried"
        /\ resp.status = 500
        /\ RowsOf(resp.n) = {}
        /\ resp.unlink = "done" => BlobsOf(resp.n) = {}

\* C11's case: the fallback insert has failed and the blob was deleted
C11_Witness ==
    /\ FinalInsertFailed
    /\ resp.inserts = 2
    /\ resp.unlink = "done"
    /\ resp.status = 500

\* the error says that the table has no column original_filename
MissingColumnError(message) == message \in {Msg_NoColumnNamed, Msg_NoSuchColumn}

\* C12: an upload makes at most two insert attempts; the second, with the
\* reduced column set, is made if and only if the first failed because the
\* column original_filename does not exist; a successful second attempt is
\* answered 201 and reports the storage key as the only name
C12_RetryOnlyOnMissingColumn ==
    (UploadAnswered /\ resp.inserts >= 1) =>
        /\ resp.inserts <= 2
        /\ resp.inserts = 2 <=> MissingColumnError(resp.firstErr)
        /\ (resp.inserts = 2 /\ resp.err = "") =>
               /\ resp.status = 201
               /\ resp.body = [id |-> resp.lastID, filename |-> resp.filename]
               /\ \A row \in RowsOf(resp.n) : row.original_filename = NULL

\* rows inserted by different uploads are different rows
DistinctRows == \A r1, r2 \in rows : r1.by # r2.by => r1.id # r2.id

\* the row's document is served from a file of its own: the file exists and
\* was written by the upload that inserted the row
OwnBlob(row) ==
    /\ ExistsSync(row.filepath)
    /\ blobs[row.filepath].writer = row.by

\* the paths of the documents of the earlier run
EarlierPaths == {Filepath(EarlierName), Filepath(SecondName)}

---------------------------------------------------------------------------
(* More properties of the filename callback, checked under SpecFilename.   *)

DecimalDigit == {"0", "1", "2", "3", "4", "5", "6", "7", "8", "9"}
HexDigit == DecimalDigit \cup {"a", "b", "c", "d", "e", "f"}

\* key is digits, '-', hexadecimal digits, '-', and then name
HasKeyForm(key, name) ==
    \E i, j \in 1..Len(key) :
        /\ 1 < i /\ i + 1 < j
        /\ key[i] = "-" /\ key[j] = "-"
        /\ \A k \in 1..(i - 1) : key[k] \in DecimalDigit
        /\ \A k \in (i + 1)..(j - 1) : key[k] \in HexDigit
        /\ SubSeq(key, j + 1, Len(key)) = name

\* C14: the storage key is {millisecond timestamp}-{random hex salt}-
\* {sanitized name}, and the salt is one of at least 2^30 values
C14_KeyFormAndSaltEntropy ==
    fn_pc = "out" =>
        /\ HasKeyForm(fn_out.storedName, fn_out.safeOriginal)
        /\ SALT_RANGE >= 2^30

---------------------------------------------------------------------------
(* More properties of the server, checked under Spec.                      *)

\* a list request has just been answered with rows
ListAnswered == resp.kind = "list" /\ resp.status = 200

\* C15: the list holds all documents, ordered by creation time descending,
\* and documents of the same creation time in descending id order
C15_ListOrder ==
    ListAnswered =>
        /\ nreq = 1 => {resp.result[k] : k \in 1..Len(resp.result)} = rows
        /\ \A k, l \in 1..Len(resp.result) :
               k < l =>
                   \/ resp.result[k].created_at > resp.result[l].created_at
                   \/ /\ resp.result[k].created_at = resp.result[l].created_at
                      /\ resp.result[k].id > resp.result[l].id

\* a download has just been answered, and its lookup of the row did not fail
DownloadAnswered ==
    /\ resp.kind = "download" /\ resp.status # 0
    /\ ~(resp.err # "" /\ resp.row = NoRow)

\* the response streams a file (res.download was called)
Streamed(r) == r.body.id # 0

\* the row has a display name
HasDisplayName(row) == row.original_filename \notin {NULL, <<>>}

\* the label the claim gives a download of row
LabelOf(row) == IF HasDisplayName(row) THEN row.original_filename ELSE row.filename

\* a step of download request i
DownloadStep(i) ==
    /\ i \in Requests
    /\ reqs[i].kind = "download"
    /\ (i \notin DOMAIN reqs' \/ reqs'[i] # reqs[i])

\* C16: a download of an id with no row is answered 404; a download whose
\* row exists while its blob is absent is answered 404 and the row stays;
\* otherwise the blob is streamed, labeled with the row's display name, or
\* with the storage key when the row has none
C16_DownloadOutcomes ==
    /\ [](DownloadAnswered =>
            /\ resp.row = NoRow => (resp.status = 404 /\ ~Streamed(resp))
            /\ (resp.row # NoRow /\ ~Streamed(resp)) =>
                   (resp.status = 404 /\ ~ExistsSync(resp.row.filepath))
            /\ Streamed(resp) =>
                   /\ resp.row # NoRow
                   /\ resp.body = [id |-> resp.row.id, name |-> LabelOf(resp.row)]
                   /\ ~resp.failed => resp.status = 200)
    /\ [][\A i \in 1..MaxReq : DownloadStep(i) => (rows' = rows /\ blobs' = blobs)]_vars

\* C16's case: a download finds the row and not the blob, and the row stays
C16_Witness ==
    /\ DownloadAnswered
    /\ resp.row # NoRow /\ resp.row \in rows
    /\ ~ExistsSync(resp.row.filepath)
    /\ resp.status = 404

\* the client's name of the file that upload request n sent
DeclaredName(n) == (CHOOSE k \in hist.issued : k.n = n).originalname

\* a download of a document uploaded in this run against the current schema,
\* no store operation having failed, streams its file
RoundTrip ==
    /\ resp.kind = "download" /\ Streamed(resp)
    /\ resp.row.by # 0
    /\ hasOrigCol /\ ~hist.failedOps

\* C17 as stated: a download of a document uploaded with name N is labeled
\* with the display name derived from N (normalized, control characters
\* removed, trimmed), which is not the storage key
C17_RoundTripDisplayName ==
    RoundTrip =>
        /\ resp.body.name = SavedOriginalFilename(DeclaredName(resp.row.by))
        /\ resp.body.name # resp.row.filename

\* C17, amended: the same when the display name derived from N is not
\* empty; when it is empty the download is labeled with the storage key
C17_RoundTripDisplayName_Amended ==
    RoundTrip =>
        LET display == SavedOriginalFilename(DeclaredName(resp.row.by))
        IN IF display # <<>>
           THEN /\ resp.body.name = display
                /\ resp.body.name # resp.row.filename
           ELSE resp.body.name = resp.row.filename

\* C17's case: the upload of a name that normalization and sanitization
\* change is downloaded under its display name
C17_Witness ==
    /\ RoundTrip
    /\ resp.status = 200
    /\ DeclaredName(resp.row.by) = Name_odd
    /\ resp.body.name = <<"E_ACUTE", " ", ":", "x">>
    /\ resp.row.filename = StoredName(now, 0, Name_odd)

\* a delete request has just been answered
DeleteAnswered == resp.kind = "delete" /\ resp.status # 0

\* C18: when an existing id is deleted twice, the second request arriving
\* after the first was answered, the first is answered 200 and the second
\* 404; no store operation failing, a delete is answered 200 or 404
C18_DeleteTwice ==
    (DeleteAnswered /\ ~hist.failedOps) =>
        /\ resp.row # NoRow => resp.status = 200
        /\ resp.id \in resp.seenDeleted => (resp.row = NoRow /\ resp.status = 404)
        /\ resp.status \in {200, 404}

\* C18's case: the second delete of an id, arrived after the 200 of the
\* first, is answered 404
C18_Witness ==
    /\ DeleteAnswered /\ ~hist.failedOps
    /\ resp.id \in resp.seenDeleted
    /\ resp.id \in hist.rowDeleted
    /\ resp.status = 404

\* C19: a delete that found its row, and whose DELETE did not fail, is
\* answered 200 with the row removed, whatever the deletion of the blob did:
\* also when the blob was absent and when unlinkSync failed
C19_DeleteDespiteBlob ==
    (DeleteAnswered /\ resp.row # NoRow /\ resp.err = "") =>
        /\ resp.status = 200
        /\ resp.id \in hist.rowDeleted
        /\ resp.id \notin RowIds

\* C19's case: unlinkSync failed, the blob is still there, and the row was
\* removed and 200 sent
C19_Witness ==
    /\ DeleteAnswered /\ resp.row # NoRow /\ resp.err = ""
    /\ resp.failed
    /\ ExistsSync(resp.row.filepath)
    /\ resp.id \notin RowIds
    /\ resp.status = 200

\* the step in which the DELETE of delete request i fails
RowDeleteFails(i) ==
    /\ i \in Requests /\ i \in DOMAIN reqs'
    /\ reqs[i].kind = "delete" /\ reqs[i].pc = "run"
    /\ reqs'[i].err # ""

\* the delete just answered had found its row and its DELETE failed
RowDeleteFailed == DeleteAnswered /\ resp.row # NoRow /\ resp.err # ""

\* C20: when the row deletion of a delete request fails, the request is
\* answered 500, never with success, and the failed deletion leaves the row
\* in place (only another delete request can have removed it), also when
\* the blob is already gone
C20_RowDeleteFailure ==
    /\ [](RowDeleteFailed =>
            /\ resp.status = 500
            /\ resp.id \in RowIds \/ resp.id \in hist.rowDeleted)
    /\ [][\A i \in 1..MaxReq : RowDeleteFails(i) => rows' = rows]_vars

\* C20's case: the DELETE failed after the blob was removed; 500 is sent
\* and the row is still there
C20_Witness ==
    /\ RowDeleteFailed
    /\ resp.status = 500
    /\ resp.row \in rows
    /\ ~ExistsSync(resp.row.filepath)

\* C21: the filesize of every row is the number of bytes the upload that
\* created the row has written to the blob at the row's filepath
C21_FilesizeIsBytesWritten ==
    \A row \in rows :
        OwnBlob(row) =>
            /\ blobs[row.filepath].complete
            /\ row.filesize = blobs[row.filepath].size

\* C21's case: an upload of this run has written its blob and inserted its
\* row, whose filesize is the size of the blob
C21_Witness ==
    \E row \in rows :
        /\ row.by # 0
        /\ OwnBlob(row)
        /\ row.filesize = 5 /\ blobs[row.filepath].size = 5

\* the handler's step of upload request i that runs isRealPDF on req.file.path
VerifyStep(i) ==
    /\ i \in Requests
    /\ reqs[i].kind = "upload" /\ reqs[i].pc = "handler" /\ reqs[i].hasFile
    /\ (i \notin DOMAIN reqs' \/ reqs'[i] # reqs[i])

\* request i as the step leaves it: going on, or answered
AfterStep(i) == IF i \in DOMAIN reqs' THEN reqs'[i] ELSE resp'

\* the file at path has at least four bytes and the first four are %PDF
StartsWithSignature(path) ==
    /\ Len(blobs[path].head) >= 4
    /\ SubSeq(blobs[path].head, 1, 4) = Str_magic

\* C22: the content verifier returns true exactly when the file can be read
\* and its first four bytes are %PDF; for a file that is missing, cannot be
\* read or is shorter than four bytes it returns false, and no error leaves it:
\* the handler goes on to the insert or answers 400
C22_VerifierExact ==
    [][\A i \in 1..MaxReq :
         VerifyStep(i) =>
            LET path == reqs[i].path
                after == AfterStep(i)
            IN /\ after.verified \in {"true", "false"}
               /\ after.verified = "true" <=>
                     (ExistsSync(path) /\ after.read = "read" /\ StartsWithSignature(path))
               /\ IF after.verified = "true"
                  THEN i \in DOMAIN reqs' /\ after.pc = "insert1"
                  ELSE i \notin DOMAIN reqs' /\ after.status = Status_NotPdf]_vars

\* C22's cases: the verifier has returned false for a file it could not read,
\* for a missing file and for a file of three bytes, and true for a PDF
C22_WitnessUnreadable == resp.kind = "upload" /\ resp.verified = "false" /\ resp.read = "unreadable"

C22_WitnessMissing == resp.kind = "upload" /\ resp.verified = "false" /\ resp.read = "missing"

C22_WitnessShort ==
    /\ resp.kind = "upload" /\ resp.verified = "false" /\ resp.read = "read"
    /\ resp.file.head = Head_short

C22_Witness ==
    \E i \in Requests :
        /\ reqs[i].verified = "true" /\ reqs[i].read = "read"
        /\ reqs[i].pc = "insert1"

\* the upload requests in progress and the one just answered
UploadsSeen ==
    {reqs[i] : i \in {j \in Requests : reqs[j].kind = "upload"}}
        \cup (IF resp.kind = "upload" THEN {resp} ELSE {})

\* the order of one upload: type check, blob written, verification, insert
InPipelineOrder(r) ==
    /\ r.hasFile => (r.file.present /\ FileFilter(r.file))
    /\ r.verified # "not run" => r.hasFile
    /\ r.inserts >= 1 => r.verified = "true"

\* the file at path is there, fully written, and begins with %PDF
VerifiedBlobAt(path) ==
    /\ ExistsSync(path)
    /\ blobs[path].complete
    /\ StartsWithSignature(path)

\* the verifier returns true only for a fully written file
VerifiesWrittenBlob ==
    \A i \in 1..MaxReq :
        (VerifyStep(i) /\ AfterStep(i).verified = "true") => VerifiedBlobAt(reqs[i].path)

RowDeleteStep(i) ==
    /\ i \in Requests
    /\ reqs[i].kind = "delete" /\ reqs[i].pc = "run"
    /\ i \in DOMAIN reqs' /\ reqs'[i] # reqs[i]

\* neither the row of id d nor the file of a removed row of id d is there
RowAndBlobGone(d) ==
    /\ d \notin RowIds
    /\ \A row \in hist.deletedRows : row.id = d => ~ExistsSync(row.filepath)

\* C24: of two delete requests for the same id in progress at the same time,
\* no store operation failing, each is answered 200 or 404, and 200 when it
\* found the row; the DELETE that comes second removes nothing and does not
\* fail; and when both are answered neither the row nor the blob exists
C24_ConcurrentDeletes ==
    /\ [](\A d \in hist.concurrentDeletes :
            ~hist.failedOps =>
                /\ (DeleteAnswered /\ resp.id = d) =>
                       /\ resp.status \in {200, 404}
                       /\ resp.row # NoRow => resp.status = 200
                /\ Requests = {} => RowAndBlobGone(d))
    /\ [][\A i \in 1..MaxReq :
            (RowDeleteStep(i) /\ reqs[i].id \notin RowIds /\ ~hist'.failedOps) =>
                (rows' = rows /\ blobs' = blobs /\ reqs'[i].err = "")]_vars

\* C24's case: both deletes found the row, the DELETE of the one answered
\* last removed nothing, both are answered, and row and blob are gone
C24_Witness ==
    /\ DeleteAnswered /\ ~hist.failedOps /\ Requests = {}
    /\ resp.id \in hist.concurrentDeletes
    /\ resp.row # NoRow /\ resp.changes = 0 /\ resp.status = 200
    /\ resp.id \in hist.deleteAcked
    /\ resp.row \in hist.deletedRows
    /\ RowAndBlobGone(resp.id)

\* the upload just answered had its last insert fail, and the removal of its
\* file, attempted in the callback, failed as well
CleanupFailed == FinalInsertFailed /\ resp.unlink = "failed"

\* C25: when the removal of the blob after a failed insert fails, the failure
\* is logged, the removal is not tried again, and the upload is answered 500
C25_CleanupFailureLogged ==
    CleanupFailed =>
        /\ resp.log # {}
        /\ resp.unlinks = 1
        /\ resp.status = 500

\* the same without the log: one attempt, and the answer is 500
C25_CleanupFailureSilent ==
    CleanupFailed =>
        /\ resp.log = {}
        /\ resp.unlinks = 1
        /\ resp.status = 500

\* C25's case: unlinkSync failed after a failed insert and the file is still there
C25_Witness ==
    /\ CleanupFailed
    /\ ExistsSync(resp.path)
    /\ resp.status = 500

\* the rows that the upload just answered has inserted and whose file is missing
RowsWithoutBlob == {row \in RowsOf(resp.n) : ~ExistsSync(row.filepath)}

\* the files that the upload just answered has written and that no row names
BlobsWithoutRow == {p \in BlobsOf(resp.n) : \A row \in rows : row.filepath # p}

\* C26 as stated: no upload ends with a row it inserted whose blob is missing;
\* it can leave a blob without a row only when a removal of that blob by the
\* upload has failed
C26_UploadLeavesNoRowWithoutBlob ==
    UploadAnswered =>
        /\ RowsWithoutBlob = {}
        /\ BlobsWithoutRow # {} => resp.unlink = "failed"

\* C26, amended: the same for an upload whose row no delete request has found
\* and whose storage key no other upload was given
C26_UploadLeavesNoRowWithoutBlob_Amended ==
    (UploadAnswered /\ resp.lastID \notin hist.deleteSeen /\ resp.path \notin hist.collided) =>
        /\ RowsWithoutBlob = {}
        /\ BlobsWithoutRow # {} => resp.unlink = "failed"

\* C26's case: an upload is answered 500 after its insert failed and the
\* removal of its file failed, and leaves the file without a row
C26_Witness ==
    /\ UploadAnswered /\ resp.path \notin hist.collided
    /\ resp.inserts >= 1 /\ resp.unlink = "failed"
    /\ RowsOf(resp.n) = {}
    /\ BlobsWithoutRow = {resp.path}

\* a step of list or download request i, its arrival included
ReadStep(i) ==
    \/ /\ i \in Requests
       /\ reqs[i].kind \in {"list", "download"}
       /\ (i \notin DOMAIN reqs' \/ reqs'[i] # reqs[i])
    \/ /\ i \notin Requests /\ i \in DOMAIN reqs'
       /\ reqs'[i].kind \in {"list", "download"}

\* C27: list and download only read: every step of such a request, whatever
\* the other requests in progress and whatever it is answered, leaves the
\* rows and the blobs as they were
C27_ReadsChangeNothing ==
    [][\A i \in 1..MaxReq : ReadStep(i) => (rows' = rows /\ blobs' = blobs /\ lastSeq' = lastSeq)]_vars

\* C27's cases: a download answered 500, a download answered 404 for a row
\* whose file is missing, and a list answered 200, each with rows in the table
C27_Witness ==
    /\ resp.kind = "download" /\ resp.status = 500
    /\ rows # {} /\ DOMAIN blobs # {}
    /\ Requests # {}

C27_WitnessMissing ==
    /\ resp.kind = "download" /\ resp.status = 404
    /\ resp.row \in rows /\ ~ExistsSync(resp.row.filepath)
    /\ Requests # {}

C27_WitnessList ==
    /\ resp.kind = "list" /\ resp.status = 200
    /\ rows # {} /\ Requests # {}

\* a step of delete request i
DeleteStep(i) ==
    /\ i \in Requests
    /\ reqs[i].kind = "delete"
    /\ (i \notin DOMAIN reqs' \/ reqs'[i] # reqs[i])

\* the step leaves row and its file as they were
Untouched(row) ==
    /\ row \in rows'
    /\ ExistsSync(row.filepath) =>
           (row.filepath \in DOMAIN blobs' /\ blobs'[row.filepath] = blobs[row.filepath])
    /\ ~ExistsSync(row.filepath) => row.filepath \notin DOMAIN blobs'

AnsweredAfterDelete ==
    /\ resp.kind \in {"download", "delete"} /\ resp.status # 0
    /\ resp.id \in resp.seenDeleted
    /\ resp.err = ""

\* C29: once a delete of id d is answered 200, a download or delete of d that
\* arrives afterwards finds no row and is answered 404, whatever was uploaded
\* in between; the id of a new row is larger than every id given before
C29_DeletedStaysGone ==
    /\ [](AnsweredAfterDelete => (resp.row = NoRow /\ resp.status = 404))
    /\ [](\A d \in hist.deleteAcked : d \notin RowIds /\ d <= lastSeq)
    /\ [][\A row \in rows' \ rows :
            /\ row.id > lastSeq
            /\ row.id \notin (RowIds \cup hist.rowDeleted)]_vars

\* C29's case: a document is uploaded and deleted, another is uploaded, and
\* then a download of the first id is answered 404
C29_Witness ==
    /\ AnsweredAfterDelete /\ resp.kind = "download" /\ resp.n = 4
    /\ \E row \in hist.deletedRows : row.id = resp.id /\ row.by = 1
    /\ \E row \in rows : row.by = 3 /\ row.id > resp.id
    /\ resp.status = 404

\* C30: every request is answered by exactly one response: a request in
\* progress has been sent none, a request that is over has been sent one, and
\* when every callback that is due is called each request comes to its end
C30_ExactlyOneResponse ==
    /\ [](\A i \in Requests : reqs[i].sent = 0 /\ reqs[i].status = 0)
    /\ [](resp.kind # "none" => (resp.sent = 1 /\ resp.status # 0 /\ resp.n \notin Requests))
    /\ \A n \in 1..MaxServedReq : (n \in Requests) ~> (resp.kind # "none" /\ resp.n = n)

\* C30's case: res.download has failed after the headers were sent, the
\* callback has sent nothing more, and the request is over with one response
C30_Witness ==
    /\ resp.kind = "download" /\ resp.err # "" /\ resp.pc = "done"
    /\ resp.status = 200 /\ resp.sent = 1
    /\ Log_DownloadFailed \in resp.log

=============================================================================
